---------------------------- MODULE Spec2Model ----------------------------
(***************************************************************************)
(* A model of train.py: the Sample container, the DataScaler catalog, the  *)
(* floatify record conversion and load_input_file.                         *)
(*                                                                         *)
(* Three specifications share the variables:                               *)
(*   Spec        one call of load_input_file(args)                         *)
(*   SpecScaler  a DataScaler built from a table and an exclusion set,     *)
(*               then queried with get_params                              *)
(*   SpecSample  one call of the Sample constructor                        *)
(*                                                                         *)
(* Conventions.  A numpy scalar is a record [dt, v]: its dtype tag and its *)
(* value.  A Python value that may be None is a sequence of length 0       *)
(* (None) or 1.  A call that can raise yields a record whose field exc is  *)
(* "none" or the exception's type.  Feature names are compared as plain    *)
(* strings, as the source compares them.                                   *)
(***************************************************************************)
EXTENDS Integers, Sequences, FiniteSets, TLC

(* ------------------------------ bounds -------------------------------- *)

MaxRecords == 3

MaxEvents == 2

MaxLabel == 1

(* ------------------------------ domains ------------------------------- *)

\* names that occur in scaling tables and as fields of train_features
Names == {"pt", "eta", "eventweight"}

\* a name no table of the model holds, for lookups of unknown features
UnknownName == "mjj"

\* the names of the sub-groups a samples group of the model may hold
SampleNames == {"signal", "bkg"}

Labels == (0 - 2) .. MaxLabel

\* the per-feature statistics a record may carry; all six numbers differ
Triads == { [mean |-> 50, scale |-> 10, var |-> 100],
            [mean |-> 0,  scale |-> 1,  var |-> 2] }

TableRecords == [name : Names, stats : Triads]

SeqUpTo(S, n) == UNION { [1..k -> S] : k \in 0..n }

\* a scaling table: the dtype of its three numeric columns and its rows
ScalingTables == [dt : {"f4", "f8"}, rows : SeqUpTo(TableRecords, MaxRecords)]

\* the statistics the files of the model hold for a name; load_input_file
\* copies them into the catalog and never branches on them
FileStats(name) ==
    CASE name = "pt"  -> [mean |-> 50, scale |-> 10, var |-> 100]
      [] name = "eta" -> [mean |-> 0,  scale |-> 1,  var |-> 2]
      [] OTHER        -> [mean |-> 1,  scale |-> 3,  var |-> 9]

FileRecords == { [name |-> n, stats |-> FileStats(n)] : n \in Names }

\* scaling/scaling_data of a file: float64 columns, any names in any order
FileTables == [dt : {"f8"}, rows : SeqUpTo(FileRecords, MaxRecords)]

Range(s) == { s[i] : i \in DOMAIN s }

IsInjective(s) == \A i, j \in DOMAIN s : s[i] = s[j] => i = j

None == << >>

Some(x) == << x >>

\* the outcome of a call: the exception it raised, or the value it returned
NoError == [type |-> "none", at |-> "none"]

Raise(type, at) == [exc |-> [type |-> type, at |-> at], val |-> None]

Result(x) == [exc |-> NoError, val |-> Some(x)]

(* --------------------------- numpy scalars ---------------------------- *)

Scalar(dt, v) == [dt |-> dt, v |-> v]

\* conversion of one numeric scalar to np.float64 (exact for f4, f8, i4)
Float64(x) == [dt |-> "f8", v |-> x.v]

\* Python's == on two numpy scalars compares their values
NumEq(x, y) == x.v = y.v

\* np.array(list, dtype = np.float64)
Float64Array(list) == [i \in DOMAIN list |-> Float64(list[i])]

(* ----------------------------- DataScaler ----------------------------- *)

\* iteration over the table: x['name'], x['mean'], x['scale'], x['var']
RowAt(ds, i) ==
    [ name  |-> ds.rows[i].name,
      mean  |-> Scalar(ds.dt, ds.rows[i].stats.mean),
      scale |-> Scalar(ds.dt, ds.rows[i].stats.scale),
      var   |-> Scalar(ds.dt, ds.rows[i].stats.var) ]

\* list( scaling_dataset['name'] )
NameColumn(ds) == [i \in DOMAIN ds.rows |-> ds.rows[i].name]

\* mutant: the filter keeps every name
FilterFeaturesKeepAll(lst, ignore_features) == lst

\* list( filter( lambda x : x not in ignore_features, lst ) )
RECURSIVE FilterFeatures(_, _)
FilterFeatures(lst, ignore_features) ==
    IF lst = << >> THEN << >>
    ELSE IF Head(lst) \in ignore_features
         THEN FilterFeatures(Tail(lst), ignore_features)
         ELSE << Head(lst) >> \o FilterFeatures(Tail(lst), ignore_features)

\* mutant: a key already present keeps its value
DictSetKeepFirst(d, k, v) ==
    [x \in DOMAIN d \cup {k} |-> IF x \in DOMAIN d THEN d[x] ELSE v]

\* d[k] = v on a Python dict: the key is added, or its value replaced
DictSet(d, k, v) ==
    [x \in DOMAIN d \cup {k} |-> IF x = k THEN v ELSE d[x]]

\* the state of a DataScaler right after the assignments of __init__
EmptyScaler ==
    [ raw_feature_list |-> << >>, feature_list |-> << >>,
      scaling_dict |-> << >>, mean |-> << >>, scale |-> << >>, var |-> << >> ]

\* mutant: the exclusion test guards only the dictionary insertion
LoadStepAppendAlways(self, x, ignore_features) ==
    [self EXCEPT
        !.scaling_dict = IF x.name \in ignore_features THEN @
                         ELSE DictSet(@, x.name,
                                [mean |-> x.mean, scale |-> x.scale, var |-> x.var]),
        !.mean  = Append(@, x.mean),
        !.scale = Append(@, x.scale),
        !.var   = Append(@, x.var)]

\* one pass of the body of "for x in scaling_dataset"
LoadStep(self, x, ignore_features) ==
    IF x.name \in ignore_features THEN self
    ELSE [self EXCEPT
            !.scaling_dict = DictSet(@, x.name,
                                [mean |-> x.mean, scale |-> x.scale, var |-> x.var]),
            !.mean  = Append(@, x.mean),
            !.scale = Append(@, x.scale),
            !.var   = Append(@, x.var)]

\* the loop "for x in scaling_dataset", from record i on
RECURSIVE LoadLoop(_, _, _, _)
LoadLoop(self, ds, ignore_features, i) ==
    IF i > Len(ds.rows) THEN self
    ELSE LoadLoop(LoadStep(self, RowAt(ds, i), ignore_features),
                  ds, ignore_features, i + 1)

\* DataScaler.load
Load(self, ds, ignore_features) ==
    LET s1 == [self EXCEPT
                 !.raw_feature_list = NameColumn(ds),
                 !.feature_list = FilterFeatures(NameColumn(ds), ignore_features)]
        s2 == LoadLoop(s1, ds, ignore_features, 1)
    IN  [s2 EXCEPT !.mean  = Float64Array(@),
                   !.scale = Float64Array(@),
                   !.var   = Float64Array(@)]

\* DataScaler.__init__: empty fields, then one call of load
DataScalerInit(ds, ignore_features) == Load(EmptyScaler, ds, ignore_features)

\* mutant: a missing feature yields a default record instead of KeyError
GetParamsDefault(self, feature) ==
    IF feature \in DOMAIN self.scaling_dict
    THEN Result(self.scaling_dict[feature])
    ELSE Result([mean |-> Scalar("f8", 0), scale |-> Scalar("f8", 1),
                 var |-> Scalar("f8", 1)])

\* DataScaler.get_params
GetParams(self, feature) ==
    IF feature \in DOMAIN self.scaling_dict
    THEN Result(self.scaling_dict[feature])
    ELSE Raise("KeyError", "feature")

(* ------------------------------- Sample ------------------------------- *)

\* a dense numpy array: the element type, the shape and the rows of values
NdArray(dtype, rows, ncols) ==
    [dtype |-> dtype, shape |-> << Len(rows), ncols >>, data |-> rows]

\* mutant: the label is validated before the element type
SampleInitLabelFirst(name, class_label, input_data) ==
    IF input_data = None THEN Raise("AttributeError", "input_data.dtype")
    ELSE IF class_label < 0 THEN Raise("ValueError", "class_label")
    ELSE IF input_data[1].dtype # "f8" THEN Raise("Exception", "dtype")
    ELSE Result([name |-> name, class_label |-> class_label,
                 input_data |-> input_data[1]])

\* Sample.__init__; input_data is None or an array
SampleInit(name, class_label, input_data) ==
    IF input_data = None THEN Raise("AttributeError", "input_data.dtype")
    ELSE IF input_data[1].dtype # "f8" THEN Raise("Exception", "dtype")
    ELSE IF class_label < 0 THEN Raise("ValueError", "class_label")
    ELSE Result([name |-> name, class_label |-> class_label,
                 input_data |-> input_data[1]])

\* Sample.name, Sample.class_label, Sample.data
SampleName(s) == s.name

SampleClassLabel(s) == s.class_label

SampleData(s) == s.input_data

(* ------------------- train_features and floatify ---------------------- *)

Field(name, dt) == [name |-> name, dt |-> dt]

\* the compound types a train_features table of the model may have; a field
\* of type "S" holds text that is not a number
Layouts ==
    { << Field("pt", "f4"), Field("eta", "f4"), Field("eventweight", "f8") >>,
      << Field("eventweight", "f8"), Field("eta", "f8"), Field("pt", "i4") >>,
      << Field("pt", "f4"), Field("eventweight", "f8") >>,
      << Field("pt", "f4"), Field("eta", "S"), Field("eventweight", "f8") >> }

\* the value the model's tables hold in a field at an event (row)
CellVal(name, row) ==
    CASE name = "pt"  -> 10 + row
      [] name = "eta" -> 20 + row
      [] OTHER        -> 30 + row

FieldNames(layout) == { layout[i].name : i \in DOMAIN layout }

FieldOf(layout, name) == CHOOSE f \in Range(layout) : f.name = name

\* the whole table as a structured array
WholeTable(g) ==
    [ fields |-> g.layout,
      rows   |-> [r \in 1..g.n_events |->
                    [j \in DOMAIN g.layout |->
                        Scalar(g.layout[j].dt, CellVal(g.layout[j].name, r))]] ]

\* mutant: the fields are taken by position in the file's compound type
ReadFieldsByPosition(g, names) ==
    IF Len(names) > Len(g.layout) THEN Raise("ValueError", "field")
    ELSE Result([ fields |-> [j \in DOMAIN names |-> g.layout[j]],
                  rows   |-> [r \in 1..g.n_events |->
                                [j \in DOMAIN names |->
                                    Scalar(g.layout[j].dt,
                                           CellVal(g.layout[j].name, r))]] ])

\* h5py: process_group['train_features'][tuple(names)]: the named fields in
\* the order asked for; no name selects every field; a name the compound
\* type lacks, or a repeated name, raises
ReadFields(g, names) ==
    IF names = << >> THEN Result(WholeTable(g))
    ELSE IF \E i \in DOMAIN names : names[i] \notin FieldNames(g.layout)
         THEN Raise("ValueError", "field")
    ELSE IF ~IsInjective(names) THEN Raise("ValueError", "field")
    ELSE Result([ fields |-> [j \in DOMAIN names |-> FieldOf(g.layout, names[j])],
                  rows   |-> [r \in 1..g.n_events |->
                                [j \in DOMAIN names |->
                                    Scalar(FieldOf(g.layout, names[j]).dt,
                                           CellVal(names[j], r))]] ])

\* floatify: astype to one float64 field per feature (field by field, in
\* order), view as float64, reshape to shape + (-1,).  numpy raises for a
\* dtype with a repeated field name, for a cast between different numbers
\* of fields, for text that is no number, for a view of records without
\* fields and for a reshape of an empty array with an inferred dimension.
floatify(input_array, feature_list) ==
    IF ~IsInjective(feature_list) THEN Raise("ValueError", "ftype")
    ELSE IF Len(input_array.fields) # Len(feature_list)
         THEN Raise("ValueError", "astype")
    ELSE IF \E j \in DOMAIN input_array.fields : input_array.fields[j].dt = "S"
         THEN Raise("ValueError", "astype")
    ELSE IF Len(feature_list) = 0 THEN Raise("ValueError", "view")
    ELSE IF Len(input_array.rows) = 0 THEN Raise("ValueError", "reshape")
    ELSE Result(NdArray("f8",
                    [r \in DOMAIN input_array.rows |->
                        [j \in DOMAIN feature_list |->
                            Float64(input_array.rows[r][j]).v]],
                    Len(feature_list)))

\* what one sub-group of "samples" may hold
GroupContents ==
    { g \in [ has_label : BOOLEAN, training_label : Labels,
              has_train_features : BOOLEAN, layout : Layouts,
              n_events : 0..MaxEvents ] :
        /\ ~g.has_label => g.training_label = 0
        /\ ~g.has_train_features =>
              /\ g.n_events = 0
              /\ g.layout = << Field("pt", "f4"), Field("eventweight", "f8") >> }

\* the body of "for p in sample_group" up to the constructed Sample
BuildSample(p, g, scaler) ==
    IF ~g.has_label THEN Raise("KeyError", "training_label")
    ELSE IF ~g.has_train_features THEN Raise("KeyError", "train_features")
    ELSE LET rd == ReadFields(g, scaler.feature_list) IN
         IF rd.exc # NoError THEN rd
         ELSE LET fl == floatify(rd.val[1], scaler.feature_list) IN
              IF fl.exc # NoError THEN fl
              ELSE SampleInit(p, g.training_label, fl.val)

(* ------------------------------- state -------------------------------- *)

VARIABLES
    pc,              \* the position of the running call
    exc,             \* the exception that left the call, or NoError
    input_file,      \* load_input_file: what args.input names
    handle,          \* load_input_file: "unopened", "open" or "closed"
    stdout,          \* load_input_file: the messages printed, in order
    data_scaler,     \* the DataScaler: None or the object
    samples,         \* load_input_file: the list of Sample objects
    groups_read,     \* load_input_file: the sub-groups read, with their content
    ret,             \* load_input_file: None or the pair returned
    load_calls,      \* the number of calls of DataScaler.load
    scaling_dataset, \* DataScaler: the table given to the constructor
    ignore_features, \* DataScaler: the exclusion set given to the constructor
    request,         \* DataScaler: the argument of the last get_params call
    reply,           \* DataScaler: the outcome of the last get_params call
    call,            \* Sample: the constructor's arguments
    sample           \* Sample: None or the object constructed

vars == << pc, exc, input_file, handle, stdout, data_scaler, samples,
           groups_read, ret, load_calls, scaling_dataset, ignore_features,
           request, reply, call, sample >>

loaderVars == << input_file, handle, stdout, samples, groups_read, ret >>

scalerVars == << scaling_dataset, ignore_features, request, reply >>

sampleVars == << call, sample >>

EmptyTable == [dt |-> "f8", rows |-> << >>]

NoFile ==
    [ kind |-> "missing", has_scaling |-> FALSE, has_scaling_data |-> FALSE,
      scaling_data |-> EmptyTable, has_samples |-> FALSE,
      sample_names |-> << >> ]

\* the sub-group names of "samples" in the container's enumeration order
Enumerations ==
    { s \in SeqUpTo(SampleNames, Cardinality(SampleNames)) : IsInjective(s) }

\* what args.input may name: nothing, a file that is no HDF5 container, or
\* a container
InputFiles ==
    { NoFile, [NoFile EXCEPT !.kind = "not_hdf5"] }
    \cup
    { f \in [ kind : {"hdf5"}, has_scaling : BOOLEAN,
              has_scaling_data : BOOLEAN, scaling_data : FileTables,
              has_samples : BOOLEAN, sample_names : Enumerations ] :
        /\ ~f.has_scaling => ~f.has_scaling_data
        /\ ~f.has_scaling_data => f.scaling_data = EmptyTable
        /\ ~f.has_samples => f.sample_names = << >> }

IdleLoader ==
    /\ input_file = NoFile
    /\ handle = "unopened"
    /\ stdout = << >>
    /\ samples = << >>
    /\ groups_read = << >>
    /\ ret = None

IdleScaler ==
    /\ scaling_dataset = EmptyTable
    /\ ignore_features = {}
    /\ request = "none"
    /\ reply = Raise("none", "no call")

IdleSample ==
    /\ call = None
    /\ sample = None

(* -------------------------- load_input_file --------------------------- *)

\* mutant: the file is left open, as without the with statement
WithExitLeak(h) == h

\* leaving "with h5py.File(...) as input_file", normally or by an exception
\* (SystemExit included): the file is closed
WithExit(h) == "closed"

\* print(...); sys.exit() before the file is opened
FileMissing ==
    /\ pc = "start"
    /\ input_file.kind = "missing"
    /\ stdout' = Append(stdout, "input file not found")
    /\ exc' = [type |-> "SystemExit", at |-> "isfile"]
    /\ pc' = "raised"
    /\ UNCHANGED << input_file, handle, data_scaler, samples, groups_read,
                    ret, load_calls, scalerVars, sampleVars >>

\* os.path.isfile(args.input) holds
FileFound ==
    /\ pc = "start"
    /\ input_file.kind # "missing"
    /\ pc' = "open"
    /\ UNCHANGED << exc, loaderVars, data_scaler, load_calls, scalerVars,
                    sampleVars >>

\* h5py.File(...) raises on a file that is no container; nothing was opened
OpenFails ==
    /\ pc = "open"
    /\ input_file.kind = "not_hdf5"
    /\ exc' = [type |-> "OSError", at |-> "h5py.File"]
    /\ pc' = "raised"
    /\ UNCHANGED << loaderVars, data_scaler, load_calls, scalerVars,
                    sampleVars >>

\* h5py.File(args.input, 'r') entered
OpenFile ==
    /\ pc = "open"
    /\ input_file.kind = "hdf5"
    /\ handle' = "open"
    /\ pc' = "scaling"
    /\ UNCHANGED << exc, input_file, stdout, samples, groups_read, ret,
                    data_scaler, load_calls, scalerVars, sampleVars >>

\* else-branch of "if scaling_group_name in input_file"
ScalingsAbsent ==
    /\ pc = "scaling"
    /\ ~input_file.has_scaling
    /\ stdout' = Append(stdout, "scaling group not found")
    /\ exc' = [type |-> "SystemExit", at |-> "scaling"]
    /\ handle' = WithExit(handle)
    /\ pc' = "raised"
    /\ UNCHANGED << input_file, samples, groups_read, ret, data_scaler,
                    load_calls, scalerVars, sampleVars >>

\* scaling_group[scaling_data_name] on a group without that table
ScalingDataAbsent ==
    /\ pc = "scaling"
    /\ input_file.has_scaling
    /\ ~input_file.has_scaling_data
    /\ exc' = [type |-> "KeyError", at |-> "scaling_data"]
    /\ handle' = WithExit(handle)
    /\ pc' = "raised"
    /\ UNCHANGED << input_file, stdout, samples, groups_read, ret,
                    data_scaler, load_calls, scalerVars, sampleVars >>

\* data_scaler = DataScaler(scaling_dataset, ['eventweight']); print(...)
BuildScaler ==
    /\ pc = "scaling"
    /\ input_file.has_scaling
    /\ input_file.has_scaling_data
    /\ data_scaler' = Some(DataScalerInit(input_file.scaling_data, {"eventweight"}))
    /\ load_calls' = load_calls + 1
    /\ stdout' = Append(stdout, "DataScaler found features")
    /\ pc' = "samples"
    /\ UNCHANGED << exc, input_file, handle, samples, groups_read, ret,
                    scalerVars, sampleVars >>

\* mutant: a missing samples group falls through to the return
SamplesAbsentFallThrough ==
    /\ pc = "samples"
    /\ ~input_file.has_samples
    /\ stdout' = Append(stdout, "samples group not found")
    /\ handle' = WithExit(handle)
    /\ pc' = "return"
    /\ UNCHANGED << exc, input_file, samples, groups_read, ret, data_scaler,
                    load_calls, scalerVars, sampleVars >>

\* else-branch of "if samples_group_name in input_file"
SamplesAbsent ==
    /\ pc = "samples"
    /\ ~input_file.has_samples
    /\ stdout' = Append(stdout, "samples group not found")
    /\ exc' = [type |-> "SystemExit", at |-> "samples"]
    /\ handle' = WithExit(handle)
    /\ pc' = "raised"
    /\ UNCHANGED << input_file, samples, groups_read, ret, data_scaler,
                    load_calls, scalerVars, sampleVars >>

\* sample_group = input_file[samples_group_name]; the loop starts
EnterLoop ==
    /\ pc = "samples"
    /\ input_file.has_samples
    /\ pc' = "loop"
    /\ UNCHANGED << exc, loaderVars, data_scaler, load_calls, scalerVars,
                    sampleVars >>

\* mutant: the scaler is built again for every sub-group
ProcessGroupRebuild ==
    /\ pc = "loop"
    /\ Len(groups_read) < Len(input_file.sample_names)
    /\ \E g \in GroupContents :
         LET p == input_file.sample_names[Len(groups_read) + 1]
             ds == DataScalerInit(input_file.scaling_data, {"eventweight"})
             r == BuildSample(p, g, ds)
         IN  /\ groups_read' = Append(groups_read, [name |-> p, content |-> g])
             /\ data_scaler' = Some(ds)
             /\ load_calls' = load_calls + 1
             /\ IF r.exc = NoError
                THEN /\ samples' = Append(samples, r.val[1])
                     /\ UNCHANGED << exc, handle, pc >>
                ELSE /\ exc' = r.exc
                     /\ handle' = WithExit(handle)
                     /\ pc' = "raised"
                     /\ UNCHANGED samples
    /\ UNCHANGED << input_file, stdout, ret, scalerVars, sampleVars >>

\* one pass of "for p in sample_group": the next sub-group in enumeration
\* order, with whatever it holds, becomes a Sample or raises
ProcessGroup ==
    /\ pc = "loop"
    /\ Len(groups_read) < Len(input_file.sample_names)
    /\ \E g \in GroupContents :
         LET p == input_file.sample_names[Len(groups_read) + 1]
             r == BuildSample(p, g, data_scaler[1])
         IN  /\ groups_read' = Append(groups_read, [name |-> p, content |-> g])
             /\ IF r.exc = NoError
                THEN /\ samples' = Append(samples, r.val[1])
                     /\ UNCHANGED << exc, handle, pc >>
                ELSE /\ exc' = r.exc
                     /\ handle' = WithExit(handle)
                     /\ pc' = "raised"
                     /\ UNCHANGED samples
    /\ UNCHANGED << input_file, stdout, ret, data_scaler, load_calls,
                    scalerVars, sampleVars >>

\* the loop is exhausted and the with block is left
LeaveWith ==
    /\ pc = "loop"
    /\ Len(groups_read) = Len(input_file.sample_names)
    /\ handle' = WithExit(handle)
    /\ pc' = "return"
    /\ UNCHANGED << exc, input_file, stdout, samples, groups_read, ret,
                    data_scaler, load_calls, scalerVars, sampleVars >>

\* return samples, data_scaler
Return ==
    /\ pc = "return"
    /\ ret' = Some([samples |-> samples, data_scaler |-> data_scaler])
    /\ pc' = "returned"
    /\ UNCHANGED << exc, input_file, handle, stdout, samples, groups_read,
                    data_scaler, load_calls, scalerVars, sampleVars >>

Init ==
    /\ pc = "start"
    /\ exc = NoError
    /\ input_file \in InputFiles
    /\ handle = "unopened"
    /\ stdout = << >>
    /\ data_scaler = None
    /\ samples = << >>
    /\ groups_read = << >>
    /\ ret = None
    /\ load_calls = 0
    /\ IdleScaler
    /\ IdleSample

Next ==
    \/ FileMissing
    \/ FileFound
    \/ OpenFails
    \/ OpenFile
    \/ ScalingsAbsent
    \/ ScalingDataAbsent
    \/ BuildScaler
    \/ SamplesAbsent
    \/ EnterLoop
    \/ ProcessGroup
    \/ LeaveWith
    \/ Return

Spec == Init /\ [][Next]_vars

(* ------------------------ DataScaler on its own ------------------------ *)

\* DataScaler(scaling_dataset, ignore_features)
Construct ==
    /\ pc = "new"
    /\ data_scaler' = Some(DataScalerInit(scaling_dataset, ignore_features))
    /\ load_calls' = load_calls + 1
    /\ pc' = "ready"
    /\ UNCHANGED << exc, loaderVars, scalerVars, sampleVars >>

\* data_scaler.get_params(feature)
GetParamsCall ==
    /\ pc = "ready"
    /\ \E feature \in Names \cup {UnknownName} :
         /\ request' = feature
         /\ reply' = GetParams(data_scaler[1], feature)
    /\ UNCHANGED << pc, exc, loaderVars, data_scaler, load_calls,
                    scaling_dataset, ignore_features, sampleVars >>

InitScaler ==
    /\ pc = "new"
    /\ exc = NoError
    /\ IdleLoader
    /\ data_scaler = None
    /\ load_calls = 0
    /\ scaling_dataset \in ScalingTables
    /\ ignore_features \in SUBSET Names
    /\ request = "none"
    /\ reply = Raise("none", "no call")
    /\ IdleSample

NextScaler ==
    \/ Construct
    \/ GetParamsCall

SpecScaler == InitScaler /\ [][NextScaler]_vars

(* --------------------------- Sample on its own ------------------------- *)

\* arrays a caller may hand to the constructor
CallArrays ==
    UNION { UNION { { NdArray(dt, rows, k) : rows \in [1..n -> [1..k -> 0..1]] }
                    : dt \in {"f8", "f4", "i8"} }
            : << n, k >> \in (0..MaxEvents) \X (0..2) }

\* Sample(name, class_label, input_data)
SampleCall ==
    /\ pc = "new"
    /\ \E name \in SampleNames, class_label \in Labels,
          input_data \in {None} \cup { Some(a) : a \in CallArrays } :
         LET r == SampleInit(name, class_label, input_data)
         IN  /\ call' = Some([name |-> name, class_label |-> class_label,
                              input_data |-> input_data])
             /\ sample' = r.val
             /\ exc' = r.exc
             /\ pc' = IF r.exc = NoError THEN "constructed" ELSE "raised"
    /\ UNCHANGED << loaderVars, data_scaler, load_calls, scalerVars >>

InitSample ==
    /\ pc = "new"
    /\ exc = NoError
    /\ IdleLoader
    /\ data_scaler = None
    /\ load_calls = 0
    /\ IdleScaler
    /\ IdleSample

NextSample == SampleCall

SpecSample == InitSample /\ [][NextSample]_vars

(* ----------------------------- properties ------------------------------ *)

\* the records of the table given to the constructor that are not excluded
KeptRows ==
    SelectSeq(scaling_dataset.rows, LAMBDA r : r.name \notin ignore_features)

\* the indices of KeptRows that carry the given name
Occurrences(name) == { i \in DOMAIN KeptRows : KeptRows[i].name = name }

LastOccurrence(name) ==
    CHOOSE i \in Occurrences(name) : \A j \in Occurrences(name) : j <= i

\* the entry and the three vectors agree at index i
AlignedAt(s, i) ==
    /\ s.feature_list[i] \in DOMAIN s.scaling_dict
    /\ NumEq(s.scaling_dict[s.feature_list[i]].mean, s.mean[i])
    /\ NumEq(s.scaling_dict[s.feature_list[i]].scale, s.scale[i])
    /\ NumEq(s.scaling_dict[s.feature_list[i]].var, s.var[i])

\* C1: a DataScaler constructed from a table with pairwise distinct names,
\* with any exclusion set, has feature_list, mean, scale, var and
\* scaling_dict of one length, and the entry of feature_list[i] carries
\* mean[i], scale[i] and var[i].
C1_CatalogAligned ==
    (pc = "ready" /\ IsInjective(NameColumn(scaling_dataset))) =>
        LET s == data_scaler[1] IN
        /\ Len(s.mean) = Len(s.feature_list)
        /\ Len(s.scale) = Len(s.feature_list)
        /\ Len(s.var) = Len(s.feature_list)
        /\ Cardinality(DOMAIN s.scaling_dict) = Len(s.feature_list)
        /\ \A i \in DOMAIN s.feature_list : AlignedAt(s, i)

C1_Witness ==
    /\ pc = "ready"
    /\ IsInjective(NameColumn(scaling_dataset))
    /\ Len(data_scaler[1].feature_list) = 2
    /\ Len(data_scaler[1].raw_feature_list) = 3
    /\ data_scaler[1].raw_feature_list[1] \in ignore_features

\* C2: load makes raw_feature_list the table's name column in source order,
\* feature_list that column with exactly the excluded names removed and the
\* order kept; an excluded name is no key of scaling_dict, and mean, scale
\* and var hold the values of the records that are not excluded, in order.
C2_ExclusionFiltersCatalog ==
    pc = "ready" =>
        LET s == data_scaler[1] IN
        /\ s.raw_feature_list = NameColumn(scaling_dataset)
        /\ s.feature_list =
              SelectSeq(s.raw_feature_list, LAMBDA n : n \notin ignore_features)
        /\ \A n \in ignore_features : n \notin DOMAIN s.scaling_dict
        /\ Len(s.mean) = Len(KeptRows)
        /\ Len(s.scale) = Len(KeptRows)
        /\ Len(s.var) = Len(KeptRows)
        /\ \A i \in DOMAIN KeptRows :
              /\ s.mean[i].v = KeptRows[i].stats.mean
              /\ s.scale[i].v = KeptRows[i].stats.scale
              /\ s.var[i].v = KeptRows[i].stats.var

C2_Witness ==
    /\ pc = "ready"
    /\ Len(scaling_dataset.rows) = 3
    /\ scaling_dataset.rows[2].name \in ignore_features
    /\ scaling_dataset.rows[1].name \notin ignore_features
    /\ scaling_dataset.rows[3].name \notin ignore_features
    /\ Len(data_scaler[1].mean) = 2

\* C3: get_params(feature) returns exactly the stored {mean, scale, var}
\* record when load retained the feature, raises KeyError when the feature
\* was excluded or is in no record of the table, and leaves the catalog as
\* it was in both cases.
C3_GetParams ==
    /\ [](request # "none" =>
            LET s == data_scaler[1]
                retained == request \in Range(NameColumn(scaling_dataset))
                                          \ ignore_features
            IN  /\ retained =>
                      /\ reply = Result(s.scaling_dict[request])
                      /\ reply.val[1].mean.v =
                            KeptRows[LastOccurrence(request)].stats.mean
                      /\ reply.val[1].scale.v =
                            KeptRows[LastOccurrence(request)].stats.scale
                      /\ reply.val[1].var.v =
                            KeptRows[LastOccurrence(request)].stats.var
                /\ ~retained =>
                      /\ reply.exc.type = "KeyError"
                      /\ reply.val = None)
    /\ [][pc = "ready" => data_scaler' = data_scaler]_vars

C3_Witness ==
    /\ request \in ignore_features
    /\ request \in Range(NameColumn(scaling_dataset))
    /\ reply.exc.type = "KeyError"
    /\ Len(data_scaler[1].feature_list) >= 1

\* C4: the Sample constructor fails with the type-mismatch error whenever
\* the element type is not float64, whatever the label; else with the
\* invalid-label error when class_label < 0; else it succeeds and name(),
\* class_label() and data() return the arguments.  No object exists after
\* a failure.
C4_SampleValidationOrder ==
    (pc # "new" /\ call[1].input_data # None) =>
        LET a == call[1] IN
        IF a.input_data[1].dtype # "f8"
        THEN exc = [type |-> "Exception", at |-> "dtype"] /\ sample = None
        ELSE IF a.class_label < 0
        THEN exc = [type |-> "ValueError", at |-> "class_label"] /\ sample = None
        ELSE /\ exc = NoError
             /\ sample # None
             /\ SampleName(sample[1]) = a.name
             /\ SampleClassLabel(sample[1]) = a.class_label
             /\ SampleData(sample[1]) = a.input_data[1]

C4_Witness ==
    /\ pc = "raised"
    /\ call[1].input_data # None
    /\ call[1].input_data[1].dtype = "f4"
    /\ call[1].class_label < 0
    /\ exc.type = "Exception"

\* a Sample object the constructor accepts
ValidSample(x) == x.input_data.dtype = "f8" /\ x.class_label >= 0

\* C5: load_input_file returns only when the file exists, both groups exist
\* and every sub-group gave a valid Sample; with a missing file, a missing
\* scaling or samples group, a missing training_label or a sub-group that
\* fails validation, nothing is returned.
C5_NoPartialDataset ==
    /\ ret # None =>
          /\ input_file.kind = "hdf5"
          /\ input_file.has_scaling
          /\ input_file.has_samples
          /\ exc = NoError
          /\ Len(ret[1].samples) = Len(input_file.sample_names)
          /\ \A i \in DOMAIN ret[1].samples : ValidSample(ret[1].samples[i])
    /\ ( \/ input_file.kind = "missing"
         \/ ~input_file.has_scaling
         \/ ~input_file.has_samples
         \/ \E i \in DOMAIN groups_read :
               \/ ~groups_read[i].content.has_label
               \/ groups_read[i].content.training_label < 0 )
       => (ret = None /\ pc \notin {"return", "returned"})

C5_Witness ==
    /\ pc = "raised"
    /\ Len(samples) = 1
    /\ Len(groups_read) = 2
    /\ exc = [type |-> "ValueError", at |-> "class_label"]
    /\ ret = None

\* C6: when control has left load_input_file, by a return or by any
\* exception, the file is not open: it was never opened (missing file) or
\* it has been closed.
C6_FileNotLeftOpen ==
    /\ pc \in {"return", "returned", "raised"} => handle # "open"
    /\ input_file.kind = "missing" => handle = "unopened"
    /\ (pc \in {"return", "returned", "raised"} /\ input_file.kind = "hdf5")
          => handle = "closed"

C6_Witness ==
    /\ pc = "raised"
    /\ exc = [type |-> "KeyError", at |-> "train_features"]
    /\ Len(samples) = 1
    /\ handle = "closed"

\* C7: a container whose scaling group holds no scaling_data table is
\* reported and ends in a process exit, like an absent scaling group, with
\* no catalog and no sample constructed.
C7_MissingTableExits ==
    (pc = "raised" /\ input_file.has_scaling /\ ~input_file.has_scaling_data) =>
        /\ exc.type = "SystemExit"
        /\ stdout # << >>
        /\ data_scaler = None
        /\ samples = << >>

\* the index of the field of that name in a compound type
FieldIndex(layout, name) == CHOOSE j \in DOMAIN layout : layout[j].name = name

C9_BuiltOnceInEveryExecution ==
    /\ pc \in {"returned", "raised"} => load_calls = 1
    /\ groups_read # << >> => load_calls = 1

\* C9, amended: the catalog is built at most once; an execution that gets
\* past the scaling step has built it exactly once, fully, before the first
\* sample conversion; an execution that stops earlier has built none; once
\* built the catalog never changes.
C9_BuiltOnceThenFrozen ==
    /\ [](/\ load_calls <= 1
          /\ (pc \in {"samples", "loop", "return", "returned"}
                 \/ groups_read # << >>) =>
                /\ load_calls = 1
                /\ data_scaler = Some(DataScalerInit(input_file.scaling_data,
                                                     {"eventweight"}))
          /\ load_calls = 0 => (data_scaler = None /\ groups_read = << >>)
          /\ load_calls = 1 => data_scaler # None)
    /\ [][data_scaler # None => data_scaler' = data_scaler]_vars

C9_Witness ==
    /\ pc = "returned"
    /\ Len(samples) = 2
    /\ load_calls = 1
    /\ Len(data_scaler[1].feature_list) = 2

\* a name that two or more records outside the exclusion set carry
Duplicated == { n \in Names : Cardinality(Occurrences(n)) >= 2 }

\* C10: with a non-excluded name in two or more records, load raises nothing
\* and feature_list, mean, scale and var get one element per record while
\* scaling_dict keeps one entry per name, with the last record's values: the
\* dict is shorter than the lists, and at an earlier occurrence whose values
\* differ from the last one's the entry differs from the vectors.
C10_DuplicatesInconsistent ==
    (pc = "ready" /\ Duplicated # {}) =>
        LET s == data_scaler[1] IN
        /\ exc = NoError
        /\ Len(s.feature_list) = Len(KeptRows)
        /\ Len(s.mean) = Len(KeptRows)
        /\ Len(s.scale) = Len(KeptRows)
        /\ Len(s.var) = Len(KeptRows)
        /\ Cardinality(DOMAIN s.scaling_dict) < Len(s.feature_list)
        /\ \A n \in Duplicated :
              /\ Cardinality({ i \in DOMAIN s.feature_list : s.feature_list[i] = n })
                    = Cardinality(Occurrences(n))
              /\ s.scaling_dict[n].mean.v = KeptRows[LastOccurrence(n)].stats.mean
              /\ s.scaling_dict[n].scale.v = KeptRows[LastOccurrence(n)].stats.scale
              /\ s.scaling_dict[n].var.v = KeptRows[LastOccurrence(n)].stats.var
              /\ \A i \in Occurrences(n) :
                    KeptRows[i].stats # KeptRows[LastOccurrence(n)].stats =>
                        /\ s.feature_list[i] = n
                        /\ ~AlignedAt(s, i)

C10_Witness ==
    /\ pc = "ready"
    /\ Len(KeptRows) = 3
    /\ Cardinality(Occurrences("pt")) = 3
    /\ KeptRows[1].stats = KeptRows[3].stats
    /\ KeptRows[2].stats # KeptRows[3].stats
    /\ ~AlignedAt(data_scaler[1], 2)

=============================================================================
